---- MODULE Spec2Model ----
(***************************************************************************)
(* A model of IMPPAT.py: the interactive scraper that resolves the         *)
(* phytochemicals of a plant, looks up CID and SMILES, downloads the 3D    *)
(* structure files and writes the formatted report.                        *)
(*                                                                         *)
(* Python strings the program inspects character by character (the anchor  *)
(* text, the SMILES body, the plant name, the Hyperlink value) are         *)
(* sequences of one-character strings; strings it only compares or stores  *)
(* (identifiers, "Downloaded", messages) are TLA+ strings.  An HTTP        *)
(* exchange is a response carrying a status; a transport exception of      *)
(* requests.get is outside the model.                                      *)
(***************************************************************************)
EXTENDS Integers, Sequences, FiniteSets, TLC

VARIABLES
    pc,                \* position of main / search_plant
    save_location,     \* main: the validated directory, NoDir before
    plant_name,        \* main: the plant name as typed, None before
    folders,           \* directories created by os.makedirs
    files,             \* structure folder: identifier -> content or NoFile
    report,            \* the .xlsx file: [status, ws]
    listing,           \* search_plant: the listing response
    idx,               \* search_plant: index of the current data row
    cid,               \* search_plant: local cid
    smiles,            \* search_plant: local smiles
    structure_status,  \* search_plant: local structure_status
    plant_info,        \* search_plant: the result list
    response,          \* the response object of the latest requests.get
    log                \* everything the run did, in order

vars == <<pc, save_location, plant_name, folders, files, report, listing, idx,
          cid, smiles, structure_status, plant_info, response, log>>

\* ------------------------------------------------------------------ bounds

\* data rows of a listing table
MaxRows == 2
\* invalid answers to the directory prompt
MaxBadInputs == 1
\* rows handed to save_to_excel when it is checked on its own
MaxData == 3

\* ------------------------------------------------------- program constants

HTTP_OK == 200
\* a status other than 200, as the servers answer for a missing page
FailStatuses == {404}
\* len(cols) > 3
MinCols == 3
\* summary_row = ws.max_row + 2
SummaryOffset == 2
\* iter_rows(min_row=2, ...)
FirstDataRow == 2
\* min_col=6 / min_col=7
StructureCol == 6
HyperlinkCol == 7
NumCols == 7

\* ------------------------------------------------------------ Python values

\* Python's None, among character sequences
None == <<"<None>">>
\* truthiness of an optional string: neither None nor ""
Truthy(s) == s # None /\ s # <<>>

Whitespace == {" ", "\n", "\t"}
Digits == {"0", "1", "2", "3", "4", "5", "6", "7", "8", "9"}
AlNum == Digits \cup {"O", "c", "i", "m", "u", "C", "x"}

SetMin(S) == CHOOSE x \in S : \A y \in S : x <= y
SetMax(S) == CHOOSE x \in S : \A y \in S : y <= x

\* str.strip()
strip(s) ==
    LET keep == {k \in 1..Len(s) : s[k] \notin Whitespace}
    IN  IF keep = {} THEN <<>> ELSE SubSeq(s, SetMin(keep), SetMax(keep))

\* str.rstrip()
rstrip(s) ==
    LET keep == {k \in 1..Len(s) : s[k] \notin Whitespace}
    IN  IF keep = {} THEN <<>> ELSE SubSeq(s, 1, SetMax(keep))

\* ''.join(c for c in s if keep(c))
RECURSIVE filter_chars(_, _)
filter_chars(s, keep) ==
    IF s = <<>> THEN <<>>
    ELSE (IF Head(s) \in keep THEN <<Head(s)>> ELSE <<>>) \o filter_chars(Tail(s), keep)

\* re.search(r'CID:(\d+)', text).group(1), None when there is no match
cid_match(text) ==
    LET starts == {p \in 1..Len(text) :
                     /\ p + 4 <= Len(text)
                     /\ SubSeq(text, p, p + 3) = <<"C", "I", "D", ":">>
                     /\ text[p + 4] \in Digits}
    IN  IF starts = {} THEN None
        ELSE LET p == SetMin(starts)
                 ends == {q \in (p + 4)..Len(text) :
                            \A k \in (p + 4)..q : text[k] \in Digits}
             IN  SubSeq(text, p + 4, SetMax(ends))

\* ------------------------------------------------------------------- inputs

Identifiers == {"IMPHY1", "IMPHY2"}
NoFile == "<absent>"
NoDir == "<unset>"

\* answers to the directory prompt, and the ones os.path.isdir accepts
DirInputs == {"/data", "/missing"}
ExistingDirs == {"/data"}
\* mutant: any non-empty answer is accepted
isdir_nonempty(d) == d # ""
isdir(d) == d \in ExistingDirs

PlantInputs == {<<"O", "c", "i", "/", "m", "u", "m", " ">>}

\* a <tr>: the number of its <td> cells and the texts of the 3rd and 4th
Tr(n, id) == [ncols |-> n, identifier |-> id, name |-> "name"]
HeaderTr == [ncols |-> 0, identifier |-> "", name |-> ""]
DataTrs == {Tr(n, id) : n \in {MinCols, MinCols + 1}, id \in Identifiers}

RECURSIVE SeqsUpTo(_, _)
SeqsUpTo(S, n) ==
    IF n = 0 THEN {<<>>}
    ELSE LET shorter == SeqsUpTo(S, n - 1)
         IN  shorter \cup {Append(s, x) : s \in {t \in shorter : Len(t) = n - 1}, x \in S}

\* the listing response: status, whether the page has a <table>, its <tr>s
Listing(st, tab, trs) == [status |-> st, has_table |-> tab, trs |-> trs]
ListingResponses ==
    {Listing(st, FALSE, <<>>) : st \in FailStatuses}
    \cup {Listing(HTTP_OK, FALSE, <<>>), Listing(HTTP_OK, TRUE, <<>>)}
    \cup {Listing(HTTP_OK, TRUE, <<HeaderTr>> \o rows) : rows \in SeqsUpTo(DataTrs, MaxRows)}
NoListing == Listing(0, FALSE, <<>>)

\* the detail page: status, whether the label is there, the text of the next
\* <a> after it (None when there is none)
Detail(st, lab, a) == [status |-> st, label |-> lab, anchor |-> a]
DetailResponses ==
    {Detail(st, FALSE, None) : st \in FailStatuses}
    \cup
    {Detail(HTTP_OK, FALSE, <<"C", "I", "D", ":", "7">>),
     Detail(HTTP_OK, TRUE, None),
     Detail(HTTP_OK, TRUE, <<"C", "I", "D", ":", "x">>),
     Detail(HTTP_OK, TRUE, <<" ", "C", "I", "D", ":", "4", "2", "x", "\n">>)}

\* the PubChem response: status and body
SmilesResponses ==
    {[status |-> st, text |-> <<"x">>] : st \in FailStatuses}
    \cup
    {[status |-> HTTP_OK, text |-> <<" ", "C", "C", "O", "\n">>]}

\* the structure response: status and content
StructureResponses ==
    {[status |-> st, content |-> "html"] : st \in FailStatuses}
    \cup
    {[status |-> HTTP_OK, content |-> "mol"]}

\* what open(..., 'wb') / file.write can do
FsOutcomes == {"ok", "open_fails", "write_fails"}

\* the structure folder as main finds it: os.makedirs(..., exist_ok=True)
\* keeps whatever an earlier run left there
InitialFiles ==
    {[i \in Identifiers |-> NoFile],
     [i \in Identifiers |-> IF i = "IMPHY1" THEN "old" ELSE NoFile]}

\* --------------------------------------------------------------- the log

Ev(kind, what, row, status) == [kind |-> kind, what |-> what, row |-> row, status |-> status]
Request(endpoint, row, status) == Ev("request", endpoint, row, status)
Sleep == Ev("sleep", "2s", 0, 0)
\* input(): the prompt and the line typed ("" where the model keeps it elsewhere)
Input(prompt, line) == Ev(prompt, line, 0, 0)
\* an OSError raised by open(), file.write(), to_excel() or wb.save()
OSError(what, row) == Ev("oserror", what, row, 0)
Output(msg) == Ev("print", msg, 0, 0)
Makedirs(folder) == Ev("makedirs", folder, 0, 0)
WriteFile(row) == Ev("write", "structure", row, 0)
WriteReport == Ev("write", "report", 0, 0)

MsgInvalidDir == "Invalid directory. Please enter a valid location."
MsgSaved == "Data has been saved to"
MsgNoData == "No data found for the given plant name."

BadInputs == Cardinality({k \in 1..Len(log) : log[k] = Output(MsgInvalidDir)})

\* ------------------------------------------------------------- extract_cid

\* the value extract_cid returns for a resp
extract_cid(resp) ==
    IF resp.status # HTTP_OK THEN None
    ELSE IF resp.label /\ resp.anchor # None
         THEN cid_match(strip(resp.anchor))
         ELSE None

\* what extract_cid does on the network: the request, then time.sleep(2)
extract_cid_events(row, resp) ==
    <<Request("detail", row, resp.status), Sleep>>

\* ------------------------------------------------- get_smiles_from_pubchem

NA == <<"N", "/", "A">>

get_smiles_from_pubchem(resp) ==
    IF resp.status # HTTP_OK THEN NA ELSE strip(resp.text)

get_smiles_events(row, resp) ==
    <<Request("smiles", row, resp.status), Sleep>>

\* ------------------------------------------------------ download_structure

\* the value download_structure returns when it returns
download_structure(resp) ==
    IF resp.status = HTTP_OK THEN "Downloaded" ELSE "Not found"

\* mutant: the body is written whatever the status
download_structure_files_always(fs, identifier, resp, outcome) ==
    CASE outcome = "ok" -> [fs EXCEPT ![identifier] = resp.content]
      [] outcome = "open_fails" -> fs
      [] outcome = "write_fails" -> [fs EXCEPT ![identifier] = "partial"]

\* the folder after download_structure, for each outcome of open/write
download_structure_files(fs, identifier, resp, outcome) ==
    IF resp.status = HTTP_OK
    THEN CASE outcome = "ok" -> [fs EXCEPT ![identifier] = resp.content]
           [] outcome = "open_fails" -> fs
           [] outcome = "write_fails" -> [fs EXCEPT ![identifier] = "partial"]
    ELSE fs

\* mutant: download_structure sleeps after its request like the other calls
download_structure_events_sleep(row, resp, outcome) ==
    <<Request("structure", row, resp.status), Sleep>>
    \o (IF resp.status # HTTP_OK THEN <<>>
        ELSE IF outcome = "ok" THEN <<WriteFile(row)>>
        ELSE <<OSError("structure", row)>>)

\* the request, and the write when there is one; no sleep
download_structure_events(row, resp, outcome) ==
    <<Request("structure", row, resp.status)>>
    \o (IF resp.status # HTTP_OK THEN <<>>
        ELSE IF outcome = "ok" THEN <<WriteFile(row)>>
        ELSE <<OSError("structure", row)>>)

\* whether the call raises instead of returning
download_structure_raises(resp, outcome) ==
    resp.status = HTTP_OK /\ outcome # "ok"

\* ------------------------------------------------------------ search_plant

search_plant_events(resp) == <<Request("listing", 0, resp.status), Sleep>>

\* table.find_all('tr')[1:] of the listing, [] when the request failed or the
\* page has no table
data_rows(resp) ==
    IF resp.status # HTTP_OK \/ ~resp.has_table \/ resp.trs = <<>>
    THEN <<>>
    ELSE Tail(resp.trs)

\* len(cols) > 3
well_formed(tr) == tr.ncols > MinCols

DetailUrl(identifier) ==
    <<"https://cb.imsc.res.in/imppat/phytochemical-detailedpage/", identifier>>

\* mutant: the hyperlink is prepared whatever the status
hyperlink_always(identifier, status) == DetailUrl(identifier)

\* the hyperlink prepared for a row
hyperlink(identifier, status) ==
    IF status = "Not found" THEN DetailUrl(identifier) ELSE <<>>

\* mutant: the structure download called before the SMILES lookup
next_call_swapped(step) ==
    CASE step = "cid" -> "structure"
      [] step = "structure" -> "smiles"
      [] step = "smiles" -> "append"

\* the order of the calls in the loop body, after a truthy cid
next_call(step) ==
    CASE step = "cid" -> "smiles"
      [] step = "smiles" -> "structure"
      [] step = "structure" -> "append"

\* where the loop body goes after extract_cid: the rest of the body is under
\* "if cid:"
after_cid(c) == IF Truthy(c) THEN next_call("cid") ELSE "loop"

\* ----------------------------------------------------------- save_to_excel

\* a worksheet cell; data_type tells what value holds: "n" a number, "s" a
\* string, "t" a character sequence, "e" nothing (value None)
Cell(t, v) == [data_type |-> t, value |-> v, fill |-> "none", hyperlink |-> None,
               style |-> "Normal"]
EmptyCell == Cell("e", None)
\* a cell written from a character sequence: "" and None leave the cell empty
TextCell(v) == IF Truthy(v) THEN Cell("t", v) ELSE EmptyCell

FILL_DOWNLOADED == "92D050"
FILL_NOT_FOUND == "FF3300"
LinkLabel == <<"L", "i", "n", "k">>

Columns == <<"Sl No", "Phytochemical Identifier", "Phytochemical Name", "CID",
             "Canonical SMILES", "Structure", "Hyperlink">>

\* data_with_slno = [[i+1] + row for i, row in enumerate(data)]
data_with_slno(data) == [k \in 1..Len(data) |-> <<k>> \o data[k]]

\* df.to_excel(file_path, index=False) followed by load_workbook: the header
\* row, then one row per record
to_excel(rows) ==
    <<[c \in 1..NumCols |-> Cell("s", Columns[c])]>>
    \o [k \in 1..Len(rows) |->
          <<Cell("n", rows[k][1]), Cell("s", rows[k][2]), Cell("s", rows[k][3]),
            TextCell(rows[k][4]), TextCell(rows[k][5]), Cell("s", rows[k][6]),
            TextCell(rows[k][7])>>]

\* ws.max_row
max_row(ws) == Len(ws)

\* the rows iter_rows(min_row=2, max_row=ws.max_row) visits
iter_rows(ws) == FirstDataRow..max_row(ws)

is_downloaded(cell) == cell.data_type = "s" /\ cell.value = "Downloaded"

\* the first loop: the fill of every Structure cell
apply_fills(ws) ==
    [r \in 1..Len(ws) |->
        IF r \in iter_rows(ws)
        THEN [ws[r] EXCEPT ![StructureCol].fill =
                 IF is_downloaded(ws[r][StructureCol]) THEN FILL_DOWNLOADED
                 ELSE FILL_NOT_FOUND]
        ELSE ws[r]]

\* the counters of the first loop
downloaded_count(ws) ==
    Cardinality({r \in iter_rows(ws) : is_downloaded(ws[r][StructureCol])})
\* mutant: only cells that read "Not found" are counted as missing
not_found_count_literal(ws) ==
    Cardinality({r \in iter_rows(ws) : ws[r][StructureCol].data_type = "s"
                                        /\ ws[r][StructureCol].value = "Not found"})
not_found_count(ws) ==
    Cardinality({r \in iter_rows(ws) : ~is_downloaded(ws[r][StructureCol])})
total_compounds(ws) == downloaded_count(ws) + not_found_count(ws)

\* the second loop: "if cell.value:" turns the cell into a hyperlink
apply_hyperlinks(ws) ==
    [r \in 1..Len(ws) |->
        IF r \in iter_rows(ws) /\ ws[r][HyperlinkCol].data_type # "e"
        THEN [ws[r] EXCEPT ![HyperlinkCol] =
                 [data_type |-> "t", value |-> LinkLabel, fill |-> @.fill,
                  hyperlink |-> @.value, style |-> "Hyperlink"]]
        ELSE ws[r]]

\* mutant: the summary starts on the row after the data
summary_row_adjacent(ws) == max_row(ws) + 1

\* summary_row = ws.max_row + 2
summary_row(ws) == max_row(ws) + SummaryOffset

BlankRow == [c \in 1..NumCols |-> EmptyCell]
SummaryLine(label, n) ==
    [c \in 1..NumCols |-> IF c = 1 THEN Cell("s", label)
                          ELSE IF c = 2 THEN Cell("n", n) ELSE EmptyCell]

LblDownloaded == "No of compounds downloaded:"
LblMissing == "No of missing compounds:"
LblTotal == "Total no of compounds:"

\* the three summary lines written at summary_row .. summary_row+2; the rows
\* between the old max_row and summary_row stay empty
add_summary(ws, nd, nf, total) ==
    LET first == summary_row(ws)
    IN  [r \in 1..(first + 2) |->
            IF r <= Len(ws) THEN ws[r]
            ELSE IF r = first THEN SummaryLine(LblDownloaded, nd)
            ELSE IF r = first + 1 THEN SummaryLine(LblMissing, nf)
            ELSE IF r = first + 2 THEN SummaryLine(LblTotal, total)
            ELSE BlankRow]

\* the worksheet save_to_excel leaves in the file
save_to_excel(data) ==
    LET ws0 == to_excel(data_with_slno(data))
        ws1 == apply_fills(ws0)
        ws2 == apply_hyperlinks(ws1)
    IN  add_summary(ws2, downloaded_count(ws0), not_found_count(ws0), total_compounds(ws0))

NoReport == [status |-> "none", ws |-> <<>>]
SavedReport(data) == [status |-> "saved", ws |-> save_to_excel(data)]
\* a failed save: nothing was opened, or the file is left incomplete
FailedReport(old, outcome) ==
    IF outcome = "open_fails" THEN old ELSE [status |-> "partial", ws |-> <<>>]

\* -------------------------------------------------------------------- main

\* mutant: the exception is caught and the run carries on
unhandled_caught(step) == IF step = "structure" THEN "append" ELSE "done"

\* where the run goes when a call raises: no try/except anywhere, the
\* exception leaves main and the interpreter ends the run
unhandled(step) == "fault"

\* safe_plant_name: keep alphanumerics, ' ' and '_', then rstrip()
safe_plant_name(name) == rstrip(filter_chars(name, AlNum \cup {" ", "_"}))

Folder(dir, name, sub) == [dir |-> dir, name |-> name, sub |-> sub]
plant_folder(dir, name) == Folder(dir, safe_plant_name(name), "")
structure_folder(dir, name) == Folder(dir, safe_plant_name(name), "3d_structure")

NoResponse == [status |-> 0]

Init ==
    /\ pc = "prompt_dir"
    /\ save_location = NoDir
    /\ plant_name = None
    /\ folders = {}
    /\ files \in InitialFiles
    /\ report = NoReport
    /\ listing = NoListing
    /\ idx = 0
    /\ cid = None
    /\ smiles = None
    /\ structure_status = ""
    /\ plant_info = <<>>
    /\ response = NoResponse
    /\ log = <<>>

\* one turn of the "while True" prompt loop
main_prompt ==
    /\ pc = "prompt_dir"
    /\ \E d \in DirInputs :
        IF isdir(d)
        THEN /\ save_location' = d
             /\ log' = Append(log, Input("input_dir", d))
             /\ pc' = "prompt_plant"
        ELSE /\ BadInputs < MaxBadInputs
             /\ log' = log \o <<Input("input_dir", d), Output(MsgInvalidDir)>>
             /\ UNCHANGED <<save_location, pc>>
    /\ UNCHANGED <<plant_name, folders, files, report, listing, idx, cid, smiles,
                   structure_status, plant_info, response>>

\* the plant-name prompt and the two os.makedirs(..., exist_ok=True)
main_setup ==
    /\ pc = "prompt_plant"
    /\ \E name \in PlantInputs :
        /\ plant_name' = name
        /\ folders' = folders \cup {plant_folder(save_location, name),
                                    structure_folder(save_location, name)}
        /\ log' = log \o <<Input("input_plant", ""), Makedirs("plant_folder"),
                            Makedirs("structure_folder")>>
    /\ pc' = "search"
    /\ UNCHANGED <<save_location, files, report, listing, idx, cid, smiles,
                   structure_status, plant_info, response>>

\* search_plant up to the loop: the listing request, the sleep, the status
\* check and the table
search_plant_fetch ==
    /\ pc = "search"
    /\ \E resp \in ListingResponses :
        /\ response' = resp
        /\ listing' = resp
        /\ log' = log \o search_plant_events(resp)
        /\ pc' = IF resp.status # HTTP_OK THEN "returned" ELSE "loop"
    /\ idx' = 1
    /\ plant_info' = <<>>
    /\ UNCHANGED <<save_location, plant_name, folders, files, report, cid, smiles,
                   structure_status>>

\* a row with too few columns: the loop body does nothing
loop_skip_row ==
    /\ pc = "loop"
    /\ idx <= Len(data_rows(listing))
    /\ ~well_formed(data_rows(listing)[idx])
    /\ idx' = idx + 1
    /\ UNCHANGED <<pc, save_location, plant_name, folders, files, report, listing,
                   cid, smiles, structure_status, plant_info, response, log>>

\* cid = extract_cid(identifier), and the "if cid:" that follows
loop_extract_cid ==
    /\ pc = "loop"
    /\ idx <= Len(data_rows(listing))
    /\ well_formed(data_rows(listing)[idx])
    /\ \E resp \in DetailResponses :
        /\ response' = resp
        /\ cid' = extract_cid(resp)
        /\ log' = log \o extract_cid_events(idx, resp)
        /\ pc' = after_cid(extract_cid(resp))
        /\ idx' = IF after_cid(extract_cid(resp)) = "loop" THEN idx + 1 ELSE idx
    /\ UNCHANGED <<save_location, plant_name, folders, files, report, listing,
                   smiles, structure_status, plant_info>>

\* smiles = get_smiles_from_pubchem(cid)
call_get_smiles ==
    /\ pc = "smiles"
    /\ \E resp \in SmilesResponses :
        /\ response' = resp
        /\ smiles' = get_smiles_from_pubchem(resp)
        /\ log' = log \o get_smiles_events(idx, resp)
    /\ pc' = next_call("smiles")
    /\ UNCHANGED <<save_location, plant_name, folders, files, report, listing, idx,
                   cid, structure_status, plant_info>>

\* structure_status = download_structure(identifier, structure_folder); an
\* OSError of open or write is caught nowhere
call_download_structure ==
    /\ pc = "structure"
    /\ \E resp \in StructureResponses, outcome \in FsOutcomes :
        LET identifier == data_rows(listing)[idx].identifier
        IN  /\ response' = resp
            /\ log' = log \o download_structure_events(idx, resp, outcome)
            /\ files' = download_structure_files(files, identifier, resp, outcome)
            /\ IF download_structure_raises(resp, outcome)
               THEN /\ pc' = unhandled("structure")
                    /\ UNCHANGED structure_status
               ELSE /\ pc' = next_call("structure")
                    /\ structure_status' = download_structure(resp)
    /\ UNCHANGED <<save_location, plant_name, folders, report, listing, idx, cid,
                   smiles, plant_info>>

\* the hyperlink and plant_info.append([...]), end of the loop body
append_row ==
    /\ pc = "append"
    /\ LET tr == data_rows(listing)[idx]
       IN  plant_info' = Append(plant_info,
               <<tr.identifier, tr.name, cid, smiles, structure_status,
                 hyperlink(tr.identifier, structure_status)>>)
    /\ idx' = idx + 1
    /\ pc' = "loop"
    /\ UNCHANGED <<save_location, plant_name, folders, files, report, listing, cid,
                   smiles, structure_status, response, log>>

\* the loop is over: return plant_info
loop_end ==
    /\ pc = "loop"
    /\ idx > Len(data_rows(listing))
    /\ pc' = "returned"
    /\ UNCHANGED <<save_location, plant_name, folders, files, report, listing, idx,
                   cid, smiles, structure_status, plant_info, response, log>>

\* "if plant_info:": save_to_excel and the completion message; an OSError
\* of to_excel or wb.save is caught nowhere
main_save ==
    /\ pc = "returned"
    /\ plant_info # <<>>
    /\ \E outcome \in FsOutcomes :
        IF outcome = "ok"
        THEN /\ report' = SavedReport(plant_info)
             /\ log' = log \o <<WriteReport, Output(MsgSaved)>>
             /\ pc' = "done"
        ELSE /\ report' = FailedReport(report, outcome)
             /\ pc' = unhandled("report")
             /\ log' = Append(log, OSError("report", 0))
    /\ UNCHANGED <<save_location, plant_name, folders, files, listing, idx, cid,
                   smiles, structure_status, plant_info, response>>

\* "else": the "no data found" message
main_no_data ==
    /\ pc = "returned"
    /\ plant_info = <<>>
    /\ log' = Append(log, Output(MsgNoData))
    /\ pc' = "done"
    /\ UNCHANGED <<save_location, plant_name, folders, files, report, listing, idx,
                   cid, smiles, structure_status, plant_info, response>>

Next ==
    \/ main_prompt
    \/ main_setup
    \/ search_plant_fetch
    \/ loop_skip_row
    \/ loop_extract_cid
    \/ call_get_smiles
    \/ call_download_structure
    \/ append_row
    \/ loop_end
    \/ main_save
    \/ main_no_data

Spec == Init /\ [][Next]_vars

\* ------------------------------------------- save_to_excel on its own input

\* rows as a caller may pass them: any Structure value, any Hyperlink value
ArbitraryRows ==
    {<<"IMPHY1", "name", <<"4", "2">>, NA, st, link>> :
        st \in {"Downloaded", "Not found", "Pending"},
        link \in {<<>>, DetailUrl("IMPHY1")}}

InitExcel ==
    /\ pc = "excel_call"
    /\ save_location = NoDir
    /\ plant_name = None
    /\ folders = {}
    /\ files = [i \in Identifiers |-> NoFile]
    /\ report = NoReport
    /\ listing = NoListing
    /\ idx = 0
    /\ cid = None
    /\ smiles = None
    /\ structure_status = ""
    /\ plant_info \in SeqsUpTo(ArbitraryRows, MaxData)
    /\ response = NoResponse
    /\ log = <<>>

\* save_to_excel(data, file_path) on a writable path
excel_call ==
    /\ pc = "excel_call"
    /\ report' = SavedReport(plant_info)
    /\ log' = Append(log, WriteReport)
    /\ pc' = "excel_returned"
    /\ UNCHANGED <<save_location, plant_name, folders, files, listing, idx, cid,
                   smiles, structure_status, plant_info, response>>

NextExcel == excel_call

SpecExcel == InitExcel /\ [][NextExcel]_vars

\* ------------------------------------------------------------------ claims

\* the well-formed data rows of the listing, in document order
WellFormedRows == SelectSeq(data_rows(listing), well_formed)

IsRequest(e) == e.kind = "request"
RequestPositions == {k \in 1..Len(log) : IsRequest(log[k])}
Printed(msg) == \E k \in 1..Len(log) : log[k] = Output(msg)
Faulted == \E k \in 1..Len(log) : log[k].kind = "oserror"
CurrentIdentifier == data_rows(listing)[idx].identifier

\* C1: when search_plant has returned, its result has one row per well-formed
\* data row of the listing, in document order, whatever the lookups answered.
C1_EveryRowKept ==
    pc \in {"returned", "done"} =>
        /\ Len(plant_info) = Len(WellFormedRows)
        /\ \A k \in 1..Len(plant_info) :
              plant_info[k][1] = WellFormedRows[k].identifier

\* C2: the listing request comes first; requests are issued row by row, and
\* within a row in the order detail page, SMILES API, structure download,
\* each preceded by the earlier ones of its row; the report is written after
\* the last request.
Rank(endpoint) ==
    CASE endpoint = "listing" -> 0
      [] endpoint = "detail" -> 1
      [] endpoint = "smiles" -> 2
      [] endpoint = "structure" -> 3

C2_RequestOrder ==
    /\ \A p, q \in RequestPositions :
          p < q =>
            /\ log[q].what # "listing"
            /\ \/ log[p].what = "listing"
               \/ log[p].row < log[q].row
               \/ log[p].row = log[q].row /\ Rank(log[p].what) < Rank(log[q].what)
    /\ \A q \in RequestPositions :
          /\ log[q].what # "listing" =>
                \E p \in RequestPositions : p < q /\ log[p].what = "listing"
          /\ log[q].what \in {"smiles", "structure"} =>
                \E p \in RequestPositions :
                    /\ p < q
                    /\ log[p].row = log[q].row
                    /\ Rank(log[p].what) = Rank(log[q].what) - 1
    /\ \A w \in 1..Len(log) :
          log[w] = WriteReport => \A p \in RequestPositions : p < w

\* a finished run whose report holds two compounds
C2_Witness ==
    /\ pc = "done"
    /\ report.status = "saved"
    /\ Len(plant_info) = 2
    /\ \E p, q \in RequestPositions :
          /\ p < q
          /\ log[p].what = "structure"
          /\ log[q].what = "detail"

\* C3: every request to the listing, detail-page or SMILES endpoint is
\* followed at once by one delay; every delay follows such a request; and
\* nothing a structure download does is a delay, so the detail-page request
\* of the next row follows it with no delay in between.
C3_Delays ==
    /\ \A k \in RequestPositions :
          log[k].what # "structure" => k < Len(log) /\ log[k + 1] = Sleep
    /\ \A k \in 1..Len(log) :
          log[k] = Sleep =>
            k > 1 /\ IsRequest(log[k - 1]) /\ log[k - 1].what # "structure"
    /\ \A p, q \in RequestPositions :
          (p < q /\ log[p].what = "structure"
                 /\ \A m \in (p + 1)..(q - 1) : ~IsRequest(log[m]))
            => \A m \in (p + 1)..(q - 1) : log[m] # Sleep

\* a structure download followed by the next row's detail-page request
C3_Witness ==
    \E p, q \in RequestPositions :
        /\ p < q
        /\ log[p].what = "structure"
        /\ log[q].what = "detail"
        /\ log[q].row > log[p].row
        /\ \A m \in (p + 1)..(q - 1) : ~IsRequest(log[m])

\* C4 as stated: after download_structure returns, a 200 left the file with
\* the response bytes and "Downloaded"; any other status left "Not found"
\* and no file <identifier>_3D.mol in the folder.
C4_NoFileAfterNotFound ==
    pc = "append" =>
        IF response.status = HTTP_OK
        THEN structure_status = "Downloaded" /\ files[CurrentIdentifier] = response.content
        ELSE structure_status = "Not found" /\ files[CurrentIdentifier] = NoFile

\* C4 as amended: when download_structure returns, a 200 left the file with
\* the response bytes and the result "Downloaded"; any other status left the
\* result "Not found" and the folder exactly as it was before the call, so
\* the file is absent unless it was there already.
C4_DownloadEffect ==
    [][(pc = "structure" /\ pc' # "structure" /\ ~Faulted') =>
          IF response'.status = HTTP_OK
          THEN /\ structure_status' = "Downloaded"
               /\ files' = [files EXCEPT ![CurrentIdentifier] = response'.content]
          ELSE /\ structure_status' = "Not found"
               /\ files' = files]_vars

\* download_structure returned "Not found" and the file of an earlier run is
\* still in the folder
C4_Witness ==
    /\ pc = "append"
    /\ response.status # HTTP_OK
    /\ structure_status = "Not found"
    /\ files[CurrentIdentifier] # NoFile

\* C5 as stated: the sheet has N + 1 + 3 rows: the header, the N data rows
\* numbered 1..N in input order, and the three summary rows right after the
\* last data row.
C5_FourExtraRows ==
    pc = "excel_returned" =>
        LET N == Len(plant_info)
            ws == report.ws
        IN  /\ Len(ws) = N + 1 + 3
            /\ ws[N + 2][1] = Cell("s", LblDownloaded)
            /\ ws[N + 3][1] = Cell("s", LblMissing)
            /\ ws[N + 4][1] = Cell("s", LblTotal)

\* C5 as amended: the sheet extends over N + 5 rows: the header, the N data
\* rows numbered 1..N in input order, one empty row, and the three summary
\* rows (downloaded, missing, total) in rows N+3..N+5.
C5_Layout ==
    pc = "excel_returned" =>
        LET N == Len(plant_info)
            ws == report.ws
        IN  /\ Len(ws) = N + 5
            /\ \A c \in 1..NumCols : ws[1][c] = Cell("s", Columns[c])
            /\ \A k \in 1..N :
                  /\ ws[k + 1][1] = Cell("n", k)
                  /\ ws[k + 1][StructureCol].value = plant_info[k][5]
            /\ ws[N + 2] = BlankRow
            /\ ws[N + 3][1] = Cell("s", LblDownloaded)
            /\ ws[N + 4][1] = Cell("s", LblMissing)
            /\ ws[N + 5][1] = Cell("s", LblTotal)

\* save_to_excel has written a sheet for two rows
C5_Witness == pc = "excel_returned" /\ Len(plant_info) = 2 /\ report.status = "saved"

\* C6: the downloaded count is the number of input rows whose Structure is
\* "Downloaded", the missing count the number of all other rows, and the
\* total is their sum, N.
C6_SummaryCounts ==
    pc = "excel_returned" =>
        LET N == Len(plant_info)
            ws == report.ws
            nd == Cardinality({k \in 1..N : plant_info[k][5] = "Downloaded"})
            nf == Cardinality({k \in 1..N : plant_info[k][5] # "Downloaded"})
            line(label) == CHOOSE r \in 1..Len(ws) : ws[r][1] = Cell("s", label)
        IN  /\ \A label \in {LblDownloaded, LblMissing, LblTotal} :
                  \E r \in 1..Len(ws) : ws[r][1] = Cell("s", label)
            /\ ws[line(LblDownloaded)][2] = Cell("n", nd)
            /\ ws[line(LblMissing)][2] = Cell("n", nf)
            /\ ws[line(LblTotal)][2] = Cell("n", nd + nf)
            /\ nd + nf = N

\* a sheet for rows of all three kinds: downloaded, not found, anything else
C6_Witness ==
    /\ pc = "excel_returned"
    /\ \A st \in {"Downloaded", "Not found", "Pending"} :
          \E k \in 1..Len(plant_info) : plant_info[k][5] = st

\* C7: a run that ends without a filesystem fault has written the report and
\* printed the completion message, or has printed "no data found" and
\* written no report, never both; and "no data found" is the outcome exactly
\* when the listing yields no well-formed row.
C7_Outcome ==
    pc = "done" =>
        LET saved == report.status = "saved" /\ Printed(MsgSaved)
            nodata == report = NoReport /\ Printed(MsgNoData)
        IN  /\ saved # nodata
            /\ Printed(MsgSaved) => saved
            /\ Printed(MsgNoData) => nodata
            /\ nodata <=> WellFormedRows = <<>>

\* C8: once a write has failed the run takes no further step; the failing
\* step itself ends the run with no completion message, adds no row,
\* leaves every other file as it was and removes no file, so the files of
\* the rows already downloaded are still there.
C8_FaultEndsRun ==
    [][/\ ~Faulted
       /\ Faulted' =>
            /\ pc' = "fault"
            /\ ~Printed(MsgSaved)'
            /\ plant_info' = plant_info
            /\ log'[Len(log')].kind = "oserror"
            /\ \A i \in Identifiers :
                  /\ files[i] # NoFile => files'[i] # NoFile
                  /\ (pc = "returned" \/ i # CurrentIdentifier) => files'[i] = files[i]
            /\ \A k \in 1..Len(plant_info) :
                  plant_info[k][5] = "Downloaded" => files'[plant_info[k][1]] # NoFile]_vars

\* a write failed after an earlier compound's structure file was saved
C8_Witness ==
    /\ Faulted
    /\ pc = "fault"
    /\ \E k \in 1..Len(plant_info) :
          /\ plant_info[k][5] = "Downloaded"
          /\ files[plant_info[k][1]] = "mol"

\* C9: while main is at the directory prompt nothing has been created, asked
\* or requested; every answer that names no existing directory is followed
\* by the message and another prompt; the answer that names one is the last
\* and main goes on to the plant name with it.
C9_DirectoryPrompt ==
    /\ pc = "prompt_dir" =>
          /\ folders = {}
          /\ plant_name = None
          /\ save_location = NoDir
          /\ \A k \in 1..Len(log) : log[k].kind \in {"input_dir", "print"}
    /\ pc # "prompt_dir" => save_location \in ExistingDirs
    /\ \A k \in 1..Len(log) :
          log[k].kind = "input_dir" =>
            IF log[k].what \in ExistingDirs
            THEN /\ pc # "prompt_dir"
                 /\ save_location = log[k].what
                 /\ \A m \in (k + 1)..Len(log) : log[m].kind # "input_dir"
            ELSE /\ k < Len(log)
                 /\ log[k + 1] = Output(MsgInvalidDir)
                 /\ IF k + 2 <= Len(log) THEN log[k + 2].kind = "input_dir"
                    ELSE pc = "prompt_dir"

\* an invalid answer, then a valid one
C9_Witness ==
    /\ pc = "prompt_plant"
    /\ BadInputs >= 1
    /\ save_location \in ExistingDirs

\* C10: in the report of a run, a data row's Hyperlink cell is a hyperlink
\* labelled "Link" to the compound's detail page exactly when its Structure
\* value is "Not found", and that Structure cell is red; a row whose
\* Structure is "Downloaded" is green and its Hyperlink cell is empty.
IsLinkTo(cell, identifier) ==
    /\ cell.data_type = "t"
    /\ cell.value = LinkLabel
    /\ cell.style = "Hyperlink"
    /\ cell.hyperlink = DetailUrl(identifier)

C10_LinkIffNotFound ==
    (pc = "done" /\ report.status = "saved") =>
        \A k \in 1..Len(plant_info) :
            LET row == report.ws[k + 1]
                st == row[StructureCol]
                link == row[HyperlinkCol]
            IN  /\ st.value \in {"Downloaded", "Not found"}
                /\ IsLinkTo(link, row[2].value) <=> st.value = "Not found"
                /\ st.value = "Not found" => st.fill = FILL_NOT_FOUND
                /\ st.value = "Downloaded" =>
                      st.fill = FILL_DOWNLOADED /\ link = EmptyCell

\* a report with a downloaded compound and a missing one
C10_Witness ==
    /\ pc = "done"
    /\ report.status = "saved"
    /\ \E j, k \in 1..Len(plant_info) :
          plant_info[j][5] = "Downloaded" /\ plant_info[k][5] = "Not found"

====
